---- MODULE Spec2Model ----
(***************************************************************************)
(* Model of the Aurora password rotation Lambda (src/lambda/index.py).     *)
(*                                                                         *)
(* One invocation of lambda_handler runs at a time (the function is        *)
(* single-threaded and synchronous).  An invocation is split at its        *)
(* external calls: every Secrets Manager call, every database call and     *)
(* every sleep is one step, so the order of those calls is visible.        *)
(* The secret store and the database are the two collaborators; they are   *)
(* modelled by what the calls made in index.py do to them.                 *)
(***************************************************************************)
EXTENDS Naturals, Sequences, FiniteSets, Bags, TLC

(***************************************************************************)
(* Program constants.                                                      *)
(***************************************************************************)
MAX_RETRIES == 3

(***************************************************************************)
(* Bounds of the model.                                                    *)
(***************************************************************************)
MaxInvocations == 4
MaxFaults == 2

(***************************************************************************)
(* Values.                                                                 *)
(***************************************************************************)
NoToken == "None"
NoStep == "<absent>"
None == [kind |-> "None"]

SecretArn == "arn:secret"
OtherArn == "arn:missing"
Arns == {SecretArn, OtherArn}

Tokens == {"t1", "t2"}
EventTokens == Tokens \cup {NoToken}

Steps == {"createSecret", "setSecret", "testSecret", "finishSecret"}
EventSteps == Steps \cup {"rotateSecretNow", NoStep}

\* A password is a sequence of characters.
InitialPassword == <<"o", "'">>
GenPasswords == {<<"a", "!">>, <<"B", "?">>, <<"c", "#">>, <<"D", "$">>}

DbUser == "admin"
DbHost == "cluster-endpoint"

\* A secret dict is a function from the keys that are present to their values.
FullSecret == [username |-> DbUser, password |-> InitialPassword,
               host |-> DbHost, port |-> "3306", dbname |-> "mysql"]
Restrict(d, keys) == [k \in (DOMAIN d) \cap keys |-> d[k]]
InitialSecrets ==
    { FullSecret,
      Restrict(FullSecret, {"username", "password", "host"}),
      Restrict(FullSecret, {"username", "password", "port", "dbname"}) }

\* Exceptions.
ClientError(code) == [type |-> "ClientError", code |-> code]
ValueError(msg) == [type |-> "ValueError", msg |-> msg]
KeyError(field) == [type |-> "KeyError", field |-> field]
DbError(type, code, n) == [type |-> type, code |-> code, attempt |-> n]
ParamValidationError == [type |-> "ParamValidationError"]
\* the store error caught on the n-th put of create_new_secret_version
PutError(code, n) == [type |-> "ClientError", code |-> code, attempt |-> n]

MissingPendingMsg == "no AWSPENDING version"
UnknownStepMsg == "unknown step"

VARIABLES
    versions,        \* the store: version id -> [secret, stages]
    nextUuid,        \* number of version ids the SDK has generated
    dbPassword,      \* the password the database accepts for DbUser
    openConns,       \* database connections opened and not yet closed
    pc,              \* position of the running invocation
    event,           \* the event of the running invocation
    arn, token, step,
    current_secret, pending_secret, new_password,
    retry_count, last_exception, current_token,
    result,          \* what the invocation returned or raised
    obs,             \* what the running invocation has done so far
    pre,             \* store and database as they were when it started
    cycle,           \* the steps that succeeded in order, uninterrupted
    invocations, faults,
    pwd,             \* generate_password: the characters of the list pwd
    remaining_length \* generate_password: characters still to be added

vars == <<versions, nextUuid, dbPassword, openConns, pc, event, arn, token,
          step, current_secret, pending_secret, new_password, retry_count,
          last_exception, current_token, result, obs, pre, cycle,
          invocations, faults, pwd, remaining_length>>

storeVars == <<versions, nextUuid>>
dbVars == <<dbPassword, openConns>>
eventVars == <<event, arn, token, step>>
secretVars == <<current_secret, pending_secret, new_password>>
retryVars == <<retry_count, last_exception, current_token>>
genVars == <<pwd, remaining_length>>

(***************************************************************************)
(* The secret store, as index.py uses it.                                  *)
(***************************************************************************)
Holders(vs, stage) == {v \in DOMAIN vs : stage \in vs[v].stages}

\* client.get_secret_value(SecretId, VersionStage[, VersionId])
GetSecretValue(vs, a, stage, vid) ==
    IF a # SecretArn THEN [ok |-> FALSE, code |-> "ResourceNotFoundException"]
    ELSE LET found == {v \in Holders(vs, stage) : vid = NoToken \/ v = vid}
         IN  IF found = {}
             THEN [ok |-> FALSE, code |-> "ResourceNotFoundException"]
             ELSE [ok |-> TRUE,
                   SecretString |-> vs[CHOOSE v \in found : TRUE].secret]

\* The labels a version keeps when another version is given the labels
\* `moved`; the version that loses AWSCURRENT becomes AWSPREVIOUS.
StagesAfterMoveDropsNothing(old, moved) ==
    old
StagesAfterMove(old, moved) ==
    LET kept == old \ (moved \cup (IF "AWSCURRENT" \in moved
                                     THEN {"AWSPREVIOUS"} ELSE {}))
    IN  IF "AWSCURRENT" \in moved /\ "AWSCURRENT" \in old
        THEN kept \cup {"AWSPREVIOUS"}
        ELSE kept

\* client.put_secret_value(SecretId, ClientRequestToken, SecretString,
\* VersionStages): a new version id creates a version and moves the labels
\* to it; an existing id with the same content is ignored; an existing id
\* with other content is a conflict.
PutSecretValue(vs, a, vid, secret, stages) ==
    IF a # SecretArn
    THEN [code |-> "ResourceNotFoundException", versions |-> vs]
    ELSE IF vid \in DOMAIN vs
    THEN IF vs[vid].secret = secret
         THEN [code |-> "ok", versions |-> vs]
         ELSE [code |-> "ResourceExistsException", versions |-> vs]
    ELSE [code |-> "ok",
          versions |->
            [v \in (DOMAIN vs) \cup {vid} |->
               IF v = vid
               THEN [secret |-> secret, stages |-> stages]
               ELSE [secret |-> vs[v].secret,
                     stages |-> StagesAfterMove(vs[v].stages, stages)]]]

\* The version id the SDK fills in when the call names none.
Uuid(n) == "uuid-" \o ToString(n)

(***************************************************************************)
(* The database, as index.py uses it.                                      *)
(***************************************************************************)
\* pymysql.connect(host, user, password, port): does the server let us in?
Accepts(secret, pw) ==
    /\ secret["username"] = DbUser
    /\ secret["host"] = DbHost
    /\ secret["password"] = pw

\* cur.execute(sql): the live password after the statement. ALTER USER ...
\* IDENTIFIED BY '<literal>' sets it to the literal, SELECT 1 leaves it.
ExecutedAlwaysSetsPassword(stmt, pw, literal) ==
    literal
Executed(stmt, pw, literal) ==
    IF stmt = "ALTER USER" THEN literal ELSE pw

\* new_secret['password'].replace("'", "''")
RECURSIVE Escape(_)
Escape(s) ==
    IF s = <<>> THEN <<>>
    ELSE IF Head(s) = "'" THEN <<"'", "'">> \o Escape(Tail(s))
    ELSE <<Head(s)>> \o Escape(Tail(s))

\* The value of the SQL string literal '<s>': a doubled quote is one quote,
\* a single quote ends the literal early and corrupts the statement.
RECURSIVE SqlLiteral(_)
SqlLiteral(s) ==
    IF s = <<>> THEN [ok |-> TRUE, value |-> <<>>]
    ELSE IF Head(s) = "'"
    THEN IF Len(s) >= 2 /\ s[2] = "'"
         THEN LET r == SqlLiteral(Tail(Tail(s)))
              IN  [ok |-> r.ok, value |-> <<"'">> \o r.value]
         ELSE [ok |-> FALSE, value |-> <<>>]
    ELSE LET r == SqlLiteral(Tail(s))
         IN  [ok |-> r.ok, value |-> <<Head(s)>> \o r.value]

(***************************************************************************)
(* Pure parts of index.py.                                                 *)
(***************************************************************************)
\* event.get('Step', 'createSecret')
EventStep(ev) ==
    IF ev.Step = NoStep THEN "createSecret" ELSE ev.Step

\* The if/elif chain of lambda_handler: the first statement of the branch
\* taken for a step name, "raise" for the else branch.
DispatchTargetDefaulting(s) ==
    CASE s = "setSecret" -> "ss_get_current"
      [] s = "testSecret" -> "ts_get_pending"
      [] s = "finishSecret" -> "fs_get_pending"
      [] OTHER -> "cs_get_current"
DispatchTarget(s) ==
    CASE s = "createSecret" -> "cs_get_current"
      [] s = "setSecret" -> "ss_get_current"
      [] s = "testSecret" -> "ts_get_pending"
      [] s = "finishSecret" -> "fs_get_pending"
      [] OTHER -> "raise"

\* get_secret_dict, given the store's answer to get_secret_value.
WithDefaults(d) ==
    [k \in (DOMAIN d) \cup {"port", "dbname"} |->
        IF k \in DOMAIN d THEN d[k]
        ELSE IF k = "port" THEN "3306" ELSE "mysql"]
RequiredFields(d) ==
    IF "username" \notin DOMAIN d
    THEN [kind |-> "raise", err |-> KeyError("username")]
    ELSE IF "password" \notin DOMAIN d
    THEN [kind |-> "raise", err |-> KeyError("password")]
    ELSE IF "host" \notin DOMAIN d
    THEN [kind |-> "raise", err |-> KeyError("host")]
    ELSE [kind |-> "dict", value |-> WithDefaults(d)]
get_secret_dict_AnyStage(resp, stage) ==
    IF resp.ok
    THEN RequiredFields(resp.SecretString)
    ELSE IF resp.code = "ResourceNotFoundException"
    THEN None
    ELSE [kind |-> "raise", err |-> ClientError(resp.code)]
get_secret_dict(resp, stage) ==
    IF resp.ok
    THEN RequiredFields(resp.SecretString)
    ELSE IF resp.code = "ResourceNotFoundException" /\ stage = "AWSPENDING"
    THEN None
    ELSE [kind |-> "raise", err |-> ClientError(resp.code)]

\* new_secret = current_secret.copy(); new_secret['password'] = new_password
NewSecret(current, password) ==
    [current EXCEPT !["password"] = password]

\* f"{token}-retry-{retry_count}"
RetryTokenUnchanged(t, k) ==
    t
RetryToken(t, k) ==
    t \o "-retry-" \o ToString(k)

\* finishSecret: current_secret['password'] = pending_secret['password']
FinishSecretKeepsPassword(current, pending) ==
    current
FinishSecret(current, pending) ==
    [current EXCEPT !["password"] = pending["password"]]

\* The except clause of the two retry wrappers: is another attempt made
\* after the retry_count-th failure?
RetryAgainOnceMore(count) ==
    count <= MAX_RETRIES
RetryAgain(count) ==
    count < MAX_RETRIES

\* if retry_count < MAX_RETRIES: time.sleep(RETRY_DELAY_SECONDS) -- where
\* the wrapper goes between a failed attempt and the next one.
RetriesWithoutSleep(sleepPc, opPc) ==
    opPc
BeforeRetry(sleepPc, opPc) ==
    sleepPc

\* if not pending_secret: raise ValueError(...)
MissingPendingUnchecked(r) ==
    FALSE
MissingPending(r) ==
    r.kind = "None"

\* raise last_exception
Raised(errs, last) ==
    last

\* After the loop of a retry wrapper: does the wrapper raise (rather than
\* fall off its end and return None)?
GivesUpSilently(s) ==
    FALSE
GivesUpByRaising(s) ==
    TRUE

CompletionMessage(s) == [kind |-> "return", value |-> s]

\* finishSecret after its put_secret_value: the completion message, or the
\* store error re-raised by the except clause of lambda_handler.
PutOutcomeSwallowsError(code, s) ==
    CompletionMessage(s)
PutOutcome(code, s) ==
    IF code = "ok" THEN CompletionMessage(s)
    ELSE [kind |-> "raise", err |-> ClientError(code)]

\* One put_secret_value call as the invocation made it.
Wrote(vid, secret, code) == [vid |-> vid, secret |-> secret, code |-> code]

(***************************************************************************)
(* What an invocation is observed to do.                                   *)
(***************************************************************************)
Obs0 == [handler |-> "none", reads |-> 0, writes |-> 0, dbCalls |-> 0,
         wrapper |-> "none", wstate |-> "none", opCalls |-> 0, sleeps |-> 0,
         grace |-> 0, errs |-> <<>>, fetch |-> None, puts |-> <<>>]

NoCycle == [token |-> NoToken, phase |-> 0]

StepIndex(s) ==
    CASE s = "createSecret" -> 1
      [] s = "setSecret" -> 2
      [] s = "testSecret" -> 3
      [] s = "finishSecret" -> 4
      [] OTHER -> 0

\* The answers get_secret_value can give: the store's, or a service error.
GetResponses(stage, vid) ==
    {[r |-> GetSecretValue(versions, arn, stage, vid), fault |-> 0]}
    \cup (IF faults < MaxFaults
          THEN {[r |-> [ok |-> FALSE, code |-> "InternalServiceError"],
                 fault |-> 1]}
          ELSE {})

Fetched(stage, resp, r) ==
    [obs EXCEPT !.reads = @ + 1,
                !.fetch = [kind |-> "fetch", stage |-> stage,
                           resp |-> resp, result |-> r]]

(***************************************************************************)
(* Initial state: the secret holds one version, labelled AWSCURRENT, and   *)
(* the database accepts its password.                                      *)
(***************************************************************************)
Init ==
    /\ \E s \in InitialSecrets :
          versions = [v \in {"v0"} |-> [secret |-> s,
                                        stages |-> {"AWSCURRENT"}]]
    /\ nextUuid = 0
    /\ dbPassword = InitialPassword
    /\ openConns = 0
    /\ pc = "idle"
    /\ event = None
    /\ arn = SecretArn
    /\ token = NoToken
    /\ step = NoStep
    /\ current_secret = None
    /\ pending_secret = None
    /\ new_password = <<>>
    /\ retry_count = 0
    /\ last_exception = None
    /\ current_token = NoToken
    /\ result = None
    /\ obs = Obs0
    /\ pre = None
    /\ cycle = NoCycle
    /\ invocations = 0
    /\ faults = 0
    /\ pwd = EmptyBag
    /\ remaining_length = 0

(***************************************************************************)
(* lambda_handler: entry, dispatch and exit.                               *)
(***************************************************************************)
Events == [SecretId : Arns, ClientRequestToken : EventTokens,
           Step : EventSteps]

Invoke ==
    /\ pc = "idle"
    /\ invocations < MaxInvocations
    /\ \E ev \in Events :
          /\ event' = ev
          /\ arn' = ev.SecretId
          /\ token' = ev.ClientRequestToken
          /\ step' = EventStep(ev)
    /\ pc' = "dispatch"
    /\ invocations' = invocations + 1
    /\ pre' = [kind |-> "pre", versions |-> versions,
               dbPassword |-> dbPassword, faults |-> faults]
    /\ obs' = Obs0
    /\ result' = None
    /\ current_secret' = None
    /\ pending_secret' = None
    /\ new_password' = <<>>
    /\ retry_count' = 0
    /\ last_exception' = None
    /\ current_token' = NoToken
    /\ UNCHANGED <<storeVars, dbVars, cycle, faults, genVars>>

Dispatch ==
    /\ pc = "dispatch"
    /\ LET target == DispatchTarget(step)
       IN  IF target = "raise"
           THEN /\ pc' = "done"
                /\ result' = [kind |-> "raise",
                              err |-> ValueError(UnknownStepMsg)]
                /\ obs' = obs
           ELSE /\ pc' = target
                /\ result' = result
                /\ obs' = [obs EXCEPT !.handler =
                             CASE target = "cs_get_current" -> "createSecret"
                               [] target = "ss_get_current" -> "setSecret"
                               [] target = "ts_get_pending" -> "testSecret"
                               [] OTHER -> "finishSecret"]
    /\ UNCHANGED <<storeVars, dbVars, eventVars, secretVars, retryVars,
                   pre, cycle, invocations, faults, genVars>>

\* The invocation ends; the next one starts from the store and the
\* database alone.
Return ==
    /\ pc = "done"
    /\ pc' = "idle"
    /\ cycle' = IF result.kind = "return" /\ token # NoToken
                   /\ step = "createSecret"
                THEN [token |-> token, phase |-> 1]
                ELSE IF result.kind = "return" /\ token = cycle.token
                        /\ cycle.phase < 4
                        /\ StepIndex(step) = cycle.phase + 1
                THEN [token |-> token, phase |-> cycle.phase + 1]
                ELSE NoCycle
    /\ event' = None
    /\ arn' = SecretArn
    /\ token' = NoToken
    /\ step' = NoStep
    /\ current_secret' = None
    /\ pending_secret' = None
    /\ new_password' = <<>>
    /\ retry_count' = 0
    /\ last_exception' = None
    /\ current_token' = NoToken
    /\ result' = None
    /\ obs' = Obs0
    /\ pre' = None
    /\ UNCHANGED <<storeVars, dbVars, invocations, faults, genVars>>

(***************************************************************************)
(* createSecret and create_new_secret_version.                             *)
(***************************************************************************)
\* get_secret_dict(AWSCURRENT); generate_password(); the first statements
\* of create_new_secret_version.
CreateSecret_GetCurrent ==
    /\ pc = "cs_get_current"
    /\ \E g \in GetResponses("AWSCURRENT", NoToken), pw \in GenPasswords :
          LET r == get_secret_dict(g.r, "AWSCURRENT")
          IN  /\ faults' = faults + g.fault
              /\ obs' = Fetched("AWSCURRENT", g.r, r)
              /\ IF r.kind = "dict"
                 THEN /\ current_secret' = r.value
                      /\ new_password' = pw
                      /\ current_token' = token
                      /\ pc' = "cnsv_put"
                      /\ result' = result
                 ELSE /\ pc' = "done"
                      /\ result' = [kind |-> "raise",
                                    err |-> IF r.kind = "raise" THEN r.err
                                            ELSE [type |-> "AttributeError"]]
                      /\ UNCHANGED <<current_secret, new_password,
                                     current_token>>
    /\ retry_count' = 0
    /\ last_exception' = None
    /\ UNCHANGED <<storeVars, dbVars, eventVars, pending_secret, pre, cycle,
                   invocations, genVars>>

\* except client.exceptions.ResourceExistsException: the only store error
\* the version writer retries; except Exception re-raises at once.
RetryableAnyError(code) ==
    code # "ok"
Retryable(code) ==
    code = "ResourceExistsException"

\* One pass of the while loop of create_new_secret_version.
CreateNewSecretVersion_Put ==
    /\ pc = "cnsv_put"
    /\ IF current_token = NoToken
       THEN \* ClientRequestToken=None is rejected before the call is sent
            /\ pc' = "done"
            /\ result' = [kind |-> "raise", err |-> ParamValidationError]
            /\ UNCHANGED <<versions, retryVars, obs, faults>>
       ELSE \E fault \in (IF faults < MaxFaults THEN {0, 1} ELSE {0}) :
            LET put == IF fault = 1
                       THEN [code |-> "InternalServiceError",
                             versions |-> versions]
                       ELSE PutSecretValue(versions, arn, current_token,
                                NewSecret(current_secret, new_password),
                                {"AWSPENDING"})
            IN  /\ faults' = faults + fault
                /\ obs' = [obs EXCEPT !.writes = @ + 1,
                              !.puts = Append(@, Wrote(current_token,
                                  NewSecret(current_secret, new_password),
                                  put.code))]
                /\ versions' = put.versions
                /\ IF put.code = "ok"
                   THEN /\ pc' = "done"
                        /\ result' = CompletionMessage(step)
                        /\ UNCHANGED retryVars
                   ELSE IF Retryable(put.code)
                   THEN /\ last_exception' = PutError(put.code,
                                                         retry_count + 1)
                        /\ retry_count' = retry_count + 1
                        /\ IF RetryAgain(retry_count + 1)
                           THEN /\ current_token' =
                                       RetryToken(token, retry_count + 1)
                                /\ pc' = "cnsv_sleep"
                                /\ result' = result
                           ELSE /\ current_token' = current_token
                                /\ pc' = "done"
                                /\ result' = [kind |-> "raise",
                                              err |-> PutError(put.code,
                                                        retry_count + 1)]
                   ELSE /\ pc' = "done"
                        /\ result' = [kind |-> "raise",
                                      err |-> PutError(put.code,
                                                       retry_count + 1)]
                        /\ UNCHANGED retryVars
    /\ UNCHANGED <<nextUuid, dbVars, eventVars, secretVars, pre, cycle,
                   invocations, genVars>>

\* time.sleep(RETRY_DELAY_SECONDS) before the next put
CreateNewSecretVersion_Sleep ==
    /\ pc = "cnsv_sleep"
    /\ pc' = "cnsv_put"
    /\ obs' = [obs EXCEPT !.sleeps = @ + 1]
    /\ UNCHANGED <<storeVars, dbVars, eventVars, secretVars, retryVars,
                   result, pre, cycle, invocations, faults, genVars>>

(***************************************************************************)
(* The retry wrappers.                                                     *)
(***************************************************************************)
\* A wrapper is entered: retry_count = 0, last_exception = None.
EnterWrapper(o, name) ==
    [o EXCEPT !.wrapper = name, !.wstate = "running"]

\* The wrapped operation raised e on this attempt; o is what has been
\* observed up to the raise.
WrapperCatch(e, o, sleepPc, opPc) ==
    /\ last_exception' = e
    /\ retry_count' = retry_count + 1
    /\ current_token' = current_token
    /\ IF RetryAgain(retry_count + 1)
       THEN /\ pc' = BeforeRetry(sleepPc, opPc)
            /\ result' = result
            /\ obs' = [o EXCEPT !.errs = Append(@, e)]
       ELSE /\ obs' = [o EXCEPT !.errs = Append(@, e), !.wstate = "raised"]
            /\ IF GivesUpByRaising(step)
               THEN /\ pc' = "done"
                    /\ result' = [kind |-> "raise",
                                  err |-> Raised(Append(o.errs, e), e)]
               ELSE IF step = "finishSecret"
               THEN /\ pc' = "fs_get_current"
                    /\ result' = result
               ELSE /\ pc' = "done"
                    /\ result' = CompletionMessage(step)

\* time.sleep(RETRY_DELAY_SECONDS) before the next attempt
UpdateDbPasswordWithRetry_Sleep ==
    /\ pc = "udp_sleep"
    /\ pc' = "udp_connect"
    /\ obs' = [obs EXCEPT !.sleeps = @ + 1]
    /\ UNCHANGED <<storeVars, dbVars, eventVars, secretVars, retryVars,
                   result, pre, cycle, invocations, faults, genVars>>

TestDbConnectionWithRetry_Sleep ==
    /\ pc = "tdc_sleep"
    /\ pc' = "tdc_connect"
    /\ obs' = [obs EXCEPT !.sleeps = @ + 1]
    /\ UNCHANGED <<storeVars, dbVars, eventVars, secretVars, retryVars,
                   result, pre, cycle, invocations, faults, genVars>>

(***************************************************************************)
(* setSecret and update_db_password.                                       *)
(***************************************************************************)
SetSecret_GetCurrent ==
    /\ pc = "ss_get_current"
    /\ \E g \in GetResponses("AWSCURRENT", NoToken) :
          LET r == get_secret_dict(g.r, "AWSCURRENT")
          IN  /\ faults' = faults + g.fault
              /\ obs' = Fetched("AWSCURRENT", g.r, r)
              /\ IF r.kind = "raise"
                 THEN /\ pc' = "done"
                      /\ result' = [kind |-> "raise", err |-> r.err]
                      /\ current_secret' = current_secret
                 ELSE /\ pc' = "ss_get_pending"
                      /\ result' = result
                      /\ current_secret' =
                            IF r.kind = "dict" THEN r.value ELSE None
    /\ UNCHANGED <<storeVars, dbVars, eventVars, pending_secret,
                   new_password, retryVars, pre, cycle, invocations, genVars>>

\* get_secret_dict(AWSPENDING, token) and the "if not pending_secret" check
\* of setSecret, testSecret and finishSecret; then the wrapper is entered.
GetPending(here, next, name) ==
    /\ pc = here
    /\ \E g \in GetResponses("AWSPENDING", token) :
          LET r == get_secret_dict(g.r, "AWSPENDING")
          IN  /\ faults' = faults + g.fault
              /\ IF r.kind = "raise" \/ MissingPending(r)
                 THEN /\ pc' = "done"
                      /\ result' = [kind |-> "raise",
                                    err |-> IF r.kind = "raise" THEN r.err
                                            ELSE ValueError(MissingPendingMsg)]
                      /\ pending_secret' = pending_secret
                      /\ obs' = Fetched("AWSPENDING", g.r, r)
                 ELSE /\ pc' = next
                      /\ result' = result
                      /\ pending_secret' =
                            IF r.kind = "dict" THEN r.value ELSE None
                      /\ obs' = EnterWrapper(Fetched("AWSPENDING", g.r, r),
                                             name)
    /\ retry_count' = 0
    /\ last_exception' = None
    /\ UNCHANGED <<storeVars, dbVars, eventVars, current_secret,
                   new_password, current_token, pre, cycle, invocations,
                   genVars>>

SetSecret_GetPending ==
    GetPending("ss_get_pending", "udp_connect",
               "update_db_password_with_retry")

\* finally: if conn: conn.close() -- runs whether the body of
\* update_db_password / test_db_connection returned or raised.
ClosesOnlyOnReturn(conns, raised) ==
    IF raised THEN conns ELSE conns - 1
AfterFinally(conns, raised) ==
    conns - 1

\* pymysql.connect with the AWSCURRENT credentials
UpdateDbPassword_Connect ==
    /\ pc = "udp_connect"
    /\ LET o == [obs EXCEPT !.opCalls = @ + 1, !.dbCalls = @ + 1]
           n == obs.opCalls + 1
       IN  \/ /\ current_secret # None
              /\ Accepts(current_secret, dbPassword)
              /\ pc' = "udp_execute"
              /\ openConns' = openConns + 1
              /\ obs' = o
              /\ UNCHANGED <<retryVars, result, faults>>
           \/ /\ current_secret # None
              /\ ~Accepts(current_secret, dbPassword)
              /\ WrapperCatch(DbError("OperationalError", "access denied", n),
                              o, "udp_sleep", "udp_connect")
              /\ UNCHANGED <<openConns, faults>>
           \/ /\ current_secret = None
              /\ WrapperCatch([type |-> "TypeError", attempt |-> n],
                              o, "udp_sleep", "udp_connect")
              /\ UNCHANGED <<openConns, faults>>
           \/ /\ faults < MaxFaults
              /\ faults' = faults + 1
              /\ WrapperCatch(DbError("OperationalError", "timed out", n),
                              o, "udp_sleep", "udp_connect")
              /\ UNCHANGED openConns
    /\ UNCHANGED <<storeVars, dbPassword, eventVars, secretVars, pre, cycle,
                   invocations, genVars>>

\* cur.execute(ALTER USER ... IDENTIFIED BY '<escaped password>')
UpdateDbPassword_Execute ==
    /\ pc = "udp_execute"
    /\ LET o == [obs EXCEPT !.dbCalls = @ + 1]
           n == obs.opCalls
           lit == IF pending_secret = None
                  THEN [ok |-> FALSE, value |-> <<>>]
                  ELSE SqlLiteral(Escape(pending_secret["password"]))
       IN  \/ /\ lit.ok
              /\ dbPassword' = Executed("ALTER USER", dbPassword, lit.value)
              /\ pc' = "udp_commit"
              /\ obs' = o
              /\ UNCHANGED <<openConns, retryVars, result, faults>>
           \/ /\ ~lit.ok
              /\ openConns' = AfterFinally(openConns, TRUE)
              /\ WrapperCatch(IF pending_secret = None
                              THEN [type |-> "TypeError", attempt |-> n]
                              ELSE DbError("ProgrammingError", "syntax", n),
                              IF pending_secret = None THEN obs ELSE o,
                              "udp_sleep", "udp_connect")
              /\ UNCHANGED <<dbPassword, faults>>
           \/ /\ faults < MaxFaults
              /\ faults' = faults + 1
              /\ openConns' = AfterFinally(openConns, TRUE)
              /\ WrapperCatch(DbError("OperationalError", "lost connection", n),
                              o, "udp_sleep", "udp_connect")
              /\ UNCHANGED dbPassword
    /\ UNCHANGED <<storeVars, eventVars, secretVars, pre, cycle, invocations,
                   genVars>>

\* conn.commit(); time.sleep(10); finally conn.close()
UpdateDbPassword_Commit ==
    /\ pc = "udp_commit"
    /\ LET o == [obs EXCEPT !.dbCalls = @ + 1]
           n == obs.opCalls
       IN  \/ /\ pc' = "done"
              /\ result' = CompletionMessage(step)
              /\ obs' = [o EXCEPT !.grace = @ + 1, !.wstate = "returned"]
              /\ openConns' = AfterFinally(openConns, FALSE)
              /\ UNCHANGED <<retryVars, faults>>
           \/ /\ faults < MaxFaults
              /\ faults' = faults + 1
              /\ openConns' = AfterFinally(openConns, TRUE)
              /\ WrapperCatch(DbError("OperationalError", "commit failed", n),
                              o, "udp_sleep", "udp_connect")
    /\ UNCHANGED <<storeVars, dbPassword, eventVars, secretVars, pre, cycle,
                   invocations, genVars>>

(***************************************************************************)
(* testSecret, finishSecret and test_db_connection.                        *)
(***************************************************************************)
TestSecret_GetPending ==
    GetPending("ts_get_pending", "tdc_connect",
               "test_db_connection_with_retry")

FinishSecret_GetPending ==
    GetPending("fs_get_pending", "tdc_connect",
               "test_db_connection_with_retry")

\* pymysql.connect with the credentials under test
TestDbConnection_Connect ==
    /\ pc = "tdc_connect"
    /\ LET o == [obs EXCEPT !.opCalls = @ + 1, !.dbCalls = @ + 1]
           n == obs.opCalls + 1
       IN  \/ /\ pending_secret # None
              /\ Accepts(pending_secret, dbPassword)
              /\ pc' = "tdc_query"
              /\ openConns' = openConns + 1
              /\ obs' = o
              /\ UNCHANGED <<retryVars, result, faults>>
           \/ /\ pending_secret # None
              /\ ~Accepts(pending_secret, dbPassword)
              /\ WrapperCatch(DbError("OperationalError", "access denied", n),
                              o, "tdc_sleep", "tdc_connect")
              /\ UNCHANGED <<openConns, faults>>
           \/ /\ pending_secret = None
              /\ WrapperCatch([type |-> "TypeError", attempt |-> n],
                              [obs EXCEPT !.opCalls = @ + 1],
                              "tdc_sleep", "tdc_connect")
              /\ UNCHANGED <<openConns, faults>>
           \/ /\ faults < MaxFaults
              /\ faults' = faults + 1
              /\ WrapperCatch(DbError("OperationalError", "timed out", n),
                              o, "tdc_sleep", "tdc_connect")
              /\ UNCHANGED openConns
    /\ UNCHANGED <<storeVars, dbPassword, eventVars, secretVars, pre, cycle,
                   invocations, genVars>>

\* cur.execute("SELECT 1"); the result check; finally conn.close().
\* When the wrapper returns, testSecret is complete and finishSecret goes on
\* to read AWSCURRENT.
TestDbConnection_Query ==
    /\ pc = "tdc_query"
    /\ LET o == [obs EXCEPT !.dbCalls = @ + 1]
           n == obs.opCalls
       IN  \/ /\ obs' = [o EXCEPT !.wstate = "returned"]
              /\ IF step = "finishSecret"
                 THEN /\ pc' = "fs_get_current"
                      /\ result' = result
                 ELSE /\ pc' = "done"
                      /\ result' = CompletionMessage(step)
              /\ openConns' = AfterFinally(openConns, FALSE)
              /\ UNCHANGED <<retryVars, faults>>
           \/ /\ faults < MaxFaults
              /\ faults' = faults + 1
              /\ openConns' = AfterFinally(openConns, TRUE)
              /\ \E e \in {DbError("OperationalError", "lost connection", n),
                           DbError("Exception", "wrong result", n)} :
                    WrapperCatch(e, o, "tdc_sleep", "tdc_connect")
    /\ dbPassword' = Executed("SELECT 1", dbPassword, <<>>)
    /\ UNCHANGED <<storeVars, eventVars, secretVars, pre, cycle,
                   invocations, genVars>>

\* get_secret_dict(AWSCURRENT) and the password assignment of finishSecret
FinishSecret_GetCurrent ==
    /\ pc = "fs_get_current"
    /\ \E g \in GetResponses("AWSCURRENT", NoToken) :
          LET r == get_secret_dict(g.r, "AWSCURRENT")
          IN  /\ faults' = faults + g.fault
              /\ obs' = Fetched("AWSCURRENT", g.r, r)
              /\ IF r.kind = "dict"
                 THEN /\ pc' = "fs_put"
                      /\ result' = result
                      /\ current_secret' = FinishSecret(r.value,
                                                        pending_secret)
                 ELSE /\ pc' = "done"
                      /\ result' = [kind |-> "raise",
                                    err |-> IF r.kind = "raise" THEN r.err
                                            ELSE [type |-> "TypeError"]]
                      /\ current_secret' = current_secret
    /\ UNCHANGED <<storeVars, dbVars, eventVars, pending_secret,
                   new_password, retryVars, pre, cycle, invocations, genVars>>

\* client.put_secret_value(SecretId, SecretString, VersionStages=[AWSCURRENT])
FinishSecret_Put ==
    /\ pc = "fs_put"
    /\ \E fault \in (IF faults < MaxFaults THEN {0, 1} ELSE {0}) :
          LET put == IF fault = 1
                     THEN [code |-> "InternalServiceError",
                           versions |-> versions]
                     ELSE PutSecretValue(versions, arn, Uuid(nextUuid + 1),
                                         current_secret, {"AWSCURRENT"})
          IN  /\ faults' = faults + fault
              /\ versions' = put.versions
              /\ result' = PutOutcome(put.code, step)
              /\ obs' = [obs EXCEPT !.writes = @ + 1,
                            !.puts = Append(@, Wrote(Uuid(nextUuid + 1),
                                                     current_secret,
                                                     put.code))]
    /\ nextUuid' = nextUuid + 1
    /\ pc' = "done"
    /\ UNCHANGED <<dbVars, eventVars, secretVars, retryVars, pre, cycle,
                   invocations, genVars>>

(***************************************************************************)
(* The specification.                                                      *)
(***************************************************************************)
Next ==
    \/ Invoke
    \/ Dispatch
    \/ Return
    \/ CreateSecret_GetCurrent
    \/ CreateNewSecretVersion_Put
    \/ CreateNewSecretVersion_Sleep
    \/ SetSecret_GetCurrent
    \/ SetSecret_GetPending
    \/ UpdateDbPassword_Connect
    \/ UpdateDbPassword_Execute
    \/ UpdateDbPassword_Commit
    \/ UpdateDbPasswordWithRetry_Sleep
    \/ TestSecret_GetPending
    \/ FinishSecret_GetPending
    \/ TestDbConnection_Connect
    \/ TestDbConnection_Query
    \/ TestDbConnectionWithRetry_Sleep
    \/ FinishSecret_GetCurrent
    \/ FinishSecret_Put

Spec == Init /\ [][Next]_vars

TypeOK ==
    /\ pc \in {"idle", "dispatch", "done", "cs_get_current", "cnsv_put",
               "cnsv_sleep", "ss_get_current", "ss_get_pending",
               "udp_connect", "udp_execute", "udp_commit", "udp_sleep",
               "ts_get_pending", "fs_get_pending", "tdc_connect",
               "tdc_query", "tdc_sleep", "fs_get_current", "fs_put"}
    /\ retry_count \in 0..MAX_RETRIES
    /\ openConns \in 0..1
    /\ invocations \in 0..MaxInvocations
    /\ faults \in 0..MaxFaults

(***************************************************************************)
(* Properties.                                                             *)
(***************************************************************************)
PasswordOf(vs, v) == vs[v].secret["password"]
Finished == pc = "done"
Succeeded == pc = "done" /\ result.kind = "return"
NoFaultInjected == faults = pre.faults

\* The running invocation is the next step, in order, of the cycle that
\* has succeeded so far without any other invocation in between.
ContinuesCycle(phase) ==
    /\ cycle.phase = phase
    /\ cycle.token = token
    /\ arn = SecretArn

\* C1: when createSecret, setSecret, testSecret and finishSecret have run in
\* order with one token, each returning success and nothing interleaved,
\* then after finishSecret the AWSCURRENT version carries the password the
\* AWSPENDING version carried just before finishSecret, and the database
\* accepts that password for the stored username.
C1_CycleEndsWithPendingPasswordCurrent ==
    (Succeeded /\ step = "finishSecret" /\ ContinuesCycle(3)) =>
        /\ Holders(pre.versions, "AWSPENDING") # {}
        /\ Holders(versions, "AWSCURRENT") # {}
        /\ \A c \in Holders(versions, "AWSCURRENT") :
              /\ \A p \in Holders(pre.versions, "AWSPENDING") :
                    PasswordOf(versions, c) = PasswordOf(pre.versions, p)
              /\ Accepts(versions[c].secret, dbPassword)

C1_Witness ==
    /\ Succeeded /\ step = "finishSecret" /\ ContinuesCycle(3)
    /\ \A c \in Holders(pre.versions, "AWSCURRENT") :
          PasswordOf(pre.versions, c) # dbPassword

C3_SetSecretTwice ==
    (/\ Finished /\ step = "setSecret" /\ ContinuesCycle(2)
     /\ NoFaultInjected
     /\ pre.dbPassword = PasswordOf(pre.versions, token)
     /\ \A c \in Holders(pre.versions, "AWSCURRENT") :
           PasswordOf(pre.versions, c) # pre.dbPassword)
    => /\ result.kind = "return"
       /\ dbPassword = PasswordOf(versions, token)

\* C4: create_new_secret_version reached from createSecret twice with the
\* same token and the same base version: the second call succeeds and the
\* store holds the same AWSPENDING payload under the same version id as
\* after the first call, and no further version exists.
C4_CreateTwiceIsIdempotent ==
    (/\ Finished /\ event.Step = "createSecret" /\ ContinuesCycle(1)
     /\ NoFaultInjected)
    => /\ result.kind = "return"
       /\ DOMAIN versions = DOMAIN pre.versions
       /\ Holders(versions, "AWSPENDING")
             = Holders(pre.versions, "AWSPENDING")
       /\ \A p \in Holders(versions, "AWSPENDING") :
             versions[p].secret = pre.versions[p].secret

\* C5: whenever createSecret returns success for token T, the version with
\* id T holds AWSPENDING and carries the generated password, so the fetch of
\* (AWSPENDING, T) by the following steps finds it.
C5_CreateLeavesPendingUnderToken ==
    (Succeeded /\ event.Step = "createSecret") =>
        /\ token \in Holders(versions, "AWSPENDING")
        /\ PasswordOf(versions, token) = new_password
        /\ GetSecretValue(versions, arn, "AWSPENDING", token).ok

\* C6: a step name outside the four recognised ones fails with the
\* unknown-step error; no handler runs, the store is neither read nor
\* written, the database is not called, and both are unchanged.
C6_UnknownStepHasNoEffect ==
    (Finished /\ event.Step \notin (Steps \cup {NoStep})) =>
        /\ result = [kind |-> "raise", err |-> ValueError(UnknownStepMsg)]
        /\ obs.handler = "none"
        /\ obs.reads = 0 /\ obs.writes = 0 /\ obs.dbCalls = 0
        /\ versions = pre.versions
        /\ dbPassword = pre.dbPassword
        /\ openConns = 0

C6_Witness ==
    /\ Finished
    /\ event.Step = "rotateSecretNow"
    /\ Holders(versions, "AWSPENDING") # {}

\* C7: an invocation that carries no step name runs none of the four step
\* handlers and makes no store write and no database call.
C7_NoDefaultStep ==
    (Finished /\ event.Step = NoStep) =>
        /\ obs.handler = "none"
        /\ obs.writes = 0
        /\ obs.dbCalls = 0

\* C8: get_secret_dict returns None exactly when the store reports
\* not-found and the stage asked for is AWSPENDING; not-found for
\* AWSCURRENT and every other store error for either stage is raised, and
\* yields neither None nor a credential.
C8_AbsentOnlyForMissingPending ==
    (obs.fetch # None) =>
        LET f == obs.fetch
            notFound == ~f.resp.ok
                        /\ f.resp.code = "ResourceNotFoundException"
        IN  /\ (f.result.kind = "None")
                  <=> (notFound /\ f.stage = "AWSPENDING")
            /\ (~f.resp.ok /\ ~(notFound /\ f.stage = "AWSPENDING"))
                  => f.result = [kind |-> "raise",
                                 err |-> ClientError(f.resp.code)]

C8_Witness ==
    /\ obs.fetch # None
    /\ obs.fetch.stage = "AWSPENDING"
    /\ obs.fetch.result.kind = "None"
    /\ arn = SecretArn
    /\ \A v \in DOMAIN versions : versions[v].stages = {"AWSCURRENT"}

\* C9: for both retry wrappers and 1 <= N <= MAX_RETRIES, when the operation
\* fails on attempts 1..N-1 and succeeds on attempt N the wrapper returns,
\* the operation has been called exactly N times and the wrapper has slept
\* exactly N-1 times; no attempt follows the success.
C9_ReturnsAfterFirstSuccess ==
    /\ (obs.wstate = "returned") =>
          /\ obs.opCalls = Len(obs.errs) + 1
          /\ obs.opCalls \in 1..MAX_RETRIES
          /\ obs.sleeps = obs.opCalls - 1
          /\ pc \in {"done", "fs_get_current", "fs_put"}
          /\ \A i \in 1..Len(obs.errs) : obs.errs[i].attempt = i
    /\ (Finished /\ obs.wstate = "returned" /\ step # "finishSecret")
          => result.kind = "return"

C9_Witness ==
    /\ obs.wstate = "returned"
    /\ obs.wrapper = "update_db_password_with_retry"
    /\ obs.opCalls = MAX_RETRIES
    /\ obs.sleeps = MAX_RETRIES - 1

\* C10: for both retry wrappers, when the operation fails on every attempt
\* it is called exactly MAX_RETRIES times, the wrapper sleeps exactly
\* MAX_RETRIES - 1 times and then raises the error of the last attempt
\* unchanged; it never reports success.
C10_RaisesLastErrorAfterMaxRetries ==
    /\ (obs.wstate = "raised") =>
          /\ obs.opCalls = MAX_RETRIES
          /\ Len(obs.errs) = MAX_RETRIES
          /\ obs.sleeps = MAX_RETRIES - 1
          /\ pc = "done"
          /\ result = [kind |-> "raise", err |-> obs.errs[MAX_RETRIES]]
          /\ result.err.attempt = MAX_RETRIES
    /\ (obs.wstate = "running") =>
          /\ Len(obs.errs) < MAX_RETRIES
          /\ obs.opCalls <= MAX_RETRIES
    /\ (obs.wstate = "returned") => Len(obs.errs) < MAX_RETRIES

C10_Witness ==
    /\ obs.wstate = "raised"
    /\ obs.wrapper = "test_db_connection_with_retry"
    /\ obs.errs[1].code # obs.errs[MAX_RETRIES].code

\* The running invocation is one of the three steps that need AWSPENDING.
NeedsPending == obs.handler \in {"setSecret", "testSecret", "finishSecret"}
NothingTouched ==
    /\ obs.dbCalls = 0
    /\ obs.writes = 0
    /\ openConns = 0
    /\ dbPassword = pre.dbPassword
    /\ versions = pre.versions

\* C11 as stated: whenever the AWSPENDING version for the token is absent,
\* setSecret, testSecret and finishSecret fail with the missing-pending
\* error, with no database connection and no store write, and the database
\* password and AWSCURRENT unchanged.
C11_MissingPendingAlways ==
    (/\ Finished /\ NeedsPending /\ NoFaultInjected
     /\ token # NoToken
     /\ ~GetSecretValue(pre.versions, arn, "AWSPENDING", token).ok)
    => /\ result = [kind |-> "raise", err |-> ValueError(MissingPendingMsg)]
       /\ NothingTouched

\* C11 amended: whenever the AWSPENDING version for the token is absent, the
\* three steps fail without a database connection and without a store write,
\* database password and store unchanged; the error is the missing-pending
\* error whenever the fetch of AWSPENDING is made and answers not-found,
\* which in setSecret is only after the fetch of AWSCURRENT succeeded.
C11_MissingPendingFailsEarly ==
    /\ (/\ Finished /\ NeedsPending
        /\ ~GetSecretValue(pre.versions, arn, "AWSPENDING", token).ok)
       => /\ result.kind = "raise"
          /\ NothingTouched
    /\ (/\ Finished /\ NeedsPending
        /\ obs.fetch.stage = "AWSPENDING"
        /\ obs.fetch.result.kind = "None")
       => /\ result = [kind |-> "raise",
                       err |-> ValueError(MissingPendingMsg)]
          /\ NothingTouched

C11_Witness ==
    /\ Finished
    /\ obs.handler = "finishSecret"
    /\ obs.fetch.stage = "AWSPENDING"
    /\ obs.fetch.result.kind = "None"
    /\ arn = SecretArn
    /\ Holders(versions, "AWSPENDING") # {}
    /\ dbPassword # InitialPassword

LastPut == obs.puts[Len(obs.puts)]

\* C12: an invocation returns the completion message only if every store
\* and database operation of its step succeeded; when a fetch, a write, the
\* mutation or the verification ends in failure, at once or after its
\* retries, the invocation ends by raising that error.
C12_NoSwallowedFailure ==
    /\ Succeeded =>
          /\ obs.handler = step
          /\ obs.fetch # None /\ obs.fetch.result.kind = "dict"
          /\ obs.wstate \in {"none", "returned"}
          /\ (step \in {"createSecret", "finishSecret"})
                => (obs.puts # <<>> /\ LastPut.code = "ok")
          /\ (step \in {"setSecret", "testSecret", "finishSecret"})
                => obs.wstate = "returned"
    /\ (obs.fetch # None /\ obs.fetch.result.kind = "raise")
          => (pc = "done" /\ result = obs.fetch.result)
    /\ (obs.fetch # None /\ obs.fetch.result.kind = "None")
          => (pc = "done" /\ result.kind = "raise")
    /\ (obs.wstate = "raised")
          => (pc = "done"
              /\ result = [kind |-> "raise", err |-> last_exception])
    /\ (obs.puts # <<>> /\ LastPut.code # "ok"
        /\ pc \notin {"cnsv_sleep", "cnsv_put"})
          => (pc = "done"
              /\ result.kind = "raise"
              /\ result.err.type = "ClientError"
              /\ result.err.code = LastPut.code)

C12_Witness ==
    /\ Finished
    /\ step = "finishSecret"
    /\ obs.wstate = "returned"
    /\ obs.puts # <<>>
    /\ LastPut.code = "InternalServiceError"
    /\ result.kind = "raise"

\* C13: once finishSecret has completed successfully for a cycle, no
\* version of the secret holds the AWSPENDING label any more.
C13_PendingGoneAfterFinish ==
    (Succeeded /\ event.Step = "finishSecret" /\ ContinuesCycle(3)
     /\ NoFaultInjected)
    => Holders(versions, "AWSPENDING") = {}

(***************************************************************************)
(* generate_password, on its own.  The list pwd is kept as the bag of its  *)
(* characters: its length and the characters it contains are what the      *)
(* function's result is judged by, and random.shuffle and ''.join keep      *)
(* both.  Each class is represented by some of its characters.             *)
(***************************************************************************)
PASSWORD_LENGTH == 32

Lowercase == {"a"}
Uppercase == {"A"}
Digits == {"0"}
Special == {"!", "?"}
AllChars == Lowercase \cup Uppercase \cup Digits \cup Special

Single(c) == SetToBag({c})

\* pwd = [choice(lowercase), choice(uppercase), choice(digits),
\*        choice(special)]
RequiredWithoutSpecial(l, u, d, sp) ==
    Single(l) (+) Single(u) (+) Single(d)
Required(l, u, d, sp) ==
    Single(l) (+) Single(u) (+) Single(d) (+) Single(sp)

GenInit ==
    /\ versions = [v \in {"v0"} |-> [secret |-> FullSecret,
                                     stages |-> {"AWSCURRENT"}]]
    /\ nextUuid = 0
    /\ dbPassword = InitialPassword
    /\ openConns = 0
    /\ pc = "gp_choose"
    /\ event = None
    /\ arn = SecretArn
    /\ token = NoToken
    /\ step = NoStep
    /\ current_secret = None
    /\ pending_secret = None
    /\ new_password = <<>>
    /\ retry_count = 0
    /\ last_exception = None
    /\ current_token = NoToken
    /\ result = None
    /\ obs = Obs0
    /\ pre = None
    /\ cycle = NoCycle
    /\ invocations = 0
    /\ faults = 0
    /\ pwd = EmptyBag
    /\ remaining_length = 0

mainVars == <<versions, nextUuid, dbPassword, openConns, event, arn, token,
              step, current_secret, pending_secret, new_password,
              retry_count, last_exception, current_token, result, obs, pre,
              cycle, invocations, faults>>

\* the four required characters and remaining_length
GeneratePassword_Choose ==
    /\ pc = "gp_choose"
    /\ \E l \in Lowercase, u \in Uppercase, d \in Digits, sp \in Special :
          LET chosen == Required(l, u, d, sp)
          IN  /\ pwd' = chosen
              /\ remaining_length' = PASSWORD_LENGTH - BagCardinality(chosen)
    /\ pc' = "gp_extend"
    /\ UNCHANGED mainVars

\* pwd.extend(random.choice(all_chars) for _ in range(remaining_length)),
\* one character at a time
GeneratePassword_Extend ==
    /\ pc = "gp_extend"
    /\ remaining_length > 0
    /\ \E c \in AllChars : pwd' = pwd (+) Single(c)
    /\ remaining_length' = remaining_length - 1
    /\ pc' = "gp_extend"
    /\ UNCHANGED mainVars

\* random.shuffle(pwd); return ''.join(pwd)
GeneratePassword_Shuffle ==
    /\ pc = "gp_extend"
    /\ remaining_length = 0
    /\ pc' = "gp_return"
    /\ UNCHANGED <<mainVars, genVars>>

\* the caller takes the result; the next call starts
GeneratePassword_Return ==
    /\ pc = "gp_return"
    /\ pc' = "gp_choose"
    /\ pwd' = EmptyBag
    /\ remaining_length' = 0
    /\ UNCHANGED mainVars

GenNext ==
    \/ GeneratePassword_Choose
    \/ GeneratePassword_Extend
    \/ GeneratePassword_Shuffle
    \/ GeneratePassword_Return

GenSpec == GenInit /\ [][GenNext]_vars

\* C14: every password generate_password returns has length 32, contains a
\* lowercase letter, an uppercase letter, a digit and a special character,
\* and contains no other kind of character.
C14_PasswordComposition ==
    (pc = "gp_return") =>
        /\ BagCardinality(pwd) = 32
        /\ BagToSet(pwd) \cap Lowercase # {}
        /\ BagToSet(pwd) \cap Uppercase # {}
        /\ BagToSet(pwd) \cap Digits # {}
        /\ BagToSet(pwd) \cap Special # {}
        /\ BagToSet(pwd) \subseteq AllChars

\* a password with exactly one special character: the required one
C14_Witness ==
    /\ pc = "gp_return"
    /\ BagCardinality(pwd) = 32
    /\ \E sp \in Special : /\ CopiesIn(sp, pwd) = 1
                           /\ BagToSet(pwd) \cap Special = {sp}
    /\ CopiesIn("a", pwd) = 29

\* The stored secrets an invocation found when it started.
PreCurrent ==
    GetSecretValue(pre.versions, arn, "AWSCURRENT", NoToken).SecretString
PrePending ==
    GetSecretValue(pre.versions, arn, "AWSPENDING", token).SecretString

\* C15: in finishSecret the store write is issued only after an attempt of
\* the re-verification succeeded; when the verification fails on all
\* attempts no write is made and AWSCURRENT is unchanged; the payload
\* written equals the AWSCURRENT credentials in every field except password,
\* which is the AWSPENDING password.
C15_VerifyThenWrite ==
    (obs.handler = "finishSecret") =>
        /\ (pc = "fs_put" \/ obs.puts # <<>>)
              => /\ obs.wstate = "returned"
                 /\ obs.opCalls = Len(obs.errs) + 1
        /\ (Len(obs.errs) = MAX_RETRIES)
              => /\ obs.puts = <<>>
                 /\ versions = pre.versions
                 /\ pc = "done"
        /\ (obs.puts # <<>>)
              => /\ Len(obs.puts) = 1
                 /\ obs.puts[1].vid \notin DOMAIN pre.versions
                 /\ obs.puts[1].secret =
                       [WithDefaults(PreCurrent)
                           EXCEPT !["password"] = PrePending["password"]]
                 /\ (obs.puts[1].code = "ok")
                       => /\ Holders(versions, "AWSCURRENT")
                                = {obs.puts[1].vid}
                          /\ versions[obs.puts[1].vid].secret
                                = obs.puts[1].secret

C15_Witness ==
    /\ Finished
    /\ obs.handler = "finishSecret"
    /\ obs.puts # <<>>
    /\ obs.puts[1].code = "ok"
    /\ Len(obs.errs) = MAX_RETRIES - 1
    /\ "port" \notin DOMAIN PreCurrent
    /\ PreCurrent["password"] # PrePending["password"]

Conflict == "ResourceExistsException"

\* C16: in create_new_secret_version a token conflict is retried under a
\* derived token: attempt 1 uses the invocation token and attempt k+1 uses
\* '<token>-retry-k'; at most MAX_RETRIES puts are made, with one sleep
\* between consecutive puts; when all MAX_RETRIES puts conflict, the last
\* conflict error is raised and the call has written no AWSPENDING version.
C16_ConflictRetriedUnderDerivedToken ==
    (obs.handler = "createSecret" /\ obs.puts # <<>>) =>
        /\ Len(obs.puts) <= MAX_RETRIES
        /\ \A i \in 1..Len(obs.puts) :
              /\ obs.puts[i].vid = IF i = 1 THEN token
                                   ELSE token \o "-retry-" \o ToString(i - 1)
              /\ (i < Len(obs.puts)) => obs.puts[i].code = Conflict
        /\ obs.sleeps = IF pc = "cnsv_put" THEN Len(obs.puts)
                        ELSE Len(obs.puts) - 1
        /\ (pc = "cnsv_sleep") => (LastPut.code = Conflict
                                   /\ Len(obs.puts) < MAX_RETRIES)
        /\ (pc = "cnsv_put") => LastPut.code = Conflict
        /\ (Len(obs.puts) = MAX_RETRIES /\ LastPut.code = Conflict)
              => /\ pc = "done"
                 /\ result = [kind |-> "raise",
                              err |-> PutError(Conflict, MAX_RETRIES)]
                 /\ versions = pre.versions

C16_Witness ==
    /\ Finished
    /\ obs.handler = "createSecret"
    /\ Len(obs.puts) = MAX_RETRIES
    /\ LastPut.code = Conflict
    /\ obs.sleeps = MAX_RETRIES - 1

\* C17: a store error other than a token conflict is not retried by
\* create_new_secret_version: it is raised from the very put that met it,
\* with no later put and no sleep after it, whatever number of conflict
\* retries came before.
C17_OtherStoreErrorNotRetried ==
    (obs.handler = "createSecret") =>
        \A i \in 1..Len(obs.puts) :
            (obs.puts[i].code \notin {"ok", Conflict}) =>
                /\ i = Len(obs.puts)
                /\ pc = "done"
                /\ result = [kind |-> "raise",
                             err |-> PutError(obs.puts[i].code, i)]
                /\ obs.sleeps = i - 1
                /\ versions = pre.versions

C17_Witness ==
    /\ Finished
    /\ obs.handler = "createSecret"
    /\ Len(obs.puts) = MAX_RETRIES
    /\ obs.puts[1].code = Conflict
    /\ obs.puts[2].code = Conflict
    /\ LastPut.code = "InternalServiceError"

\* An attempt of update_db_password ran ALTER USER and then raised.
PartiallyApplied ==
    \E i \in 1..Len(obs.errs) :
        /\ "code" \in DOMAIN obs.errs[i]
        /\ obs.errs[i].code = "commit failed"

\* C18: when one attempt of update_db_password has changed the live
\* password to AWSPENDING's and then raised, and nothing else fails, the
\* wrapper's next attempt succeeds: setSecret returns success and the
\* database accepts AWSPENDING's password.
C18_ReapplyAfterPartialUpdate ==
    (/\ Finished
     /\ obs.handler = "setSecret"
     /\ PartiallyApplied
     /\ faults = pre.faults + 1)
        => /\ Succeeded
           /\ Accepts(pending_secret, dbPassword)

\* C19: database connections never leak: every connection opened by
\* update_db_password or test_db_connection is closed on every exit path,
\* so at most one connection is open, and none is open between the attempts
\* of a wrapper, at the end of an invocation or outside the body of the two
\* functions.
C19_NoConnectionLeak ==
    /\ openConns =
          IF pc \in {"udp_execute", "udp_commit", "tdc_query"} THEN 1 ELSE 0
    /\ (pc \in {"udp_sleep", "tdc_sleep", "done", "idle"}) => openConns = 0

\* Between two attempts, after an attempt that raised with its connection
\* open.
C19_Witness ==
    /\ pc \in {"udp_sleep", "tdc_sleep"}
    /\ "code" \in DOMAIN obs.errs[Len(obs.errs)]
    /\ obs.errs[Len(obs.errs)].code
          \in {"commit failed", "lost connection", "wrong result", "syntax"}
    /\ openConns = 0

\* C20: in every reachable state (failed and re-invoked steps included, and
\* a cycle abandoned after setSecret followed by a cycle under a new token)
\* the live database password is the password of the AWSCURRENT version or
\* of the AWSPENDING version.
C20_DbPasswordIsCurrentOrPending ==
    \E v \in Holders(versions, "AWSCURRENT")
                \cup Holders(versions, "AWSPENDING") :
        versions[v].secret["password"] = dbPassword

\* C21: each step touches only its own resource, whether it succeeds or
\* fails: createSecret and testSecret leave the live database password
\* unchanged; setSecret and testSecret make no store write (no version is
\* created, no stage label moves); only setSecret changes the database
\* password and only createSecret and finishSecret write to the store.
C21_StepTouchesOnlyItsResource ==
    (pc # "idle") =>
        /\ (step \in {"createSecret", "testSecret"})
              => dbPassword = pre.dbPassword
        /\ (step \in {"setSecret", "testSecret"})
              => (versions = pre.versions /\ obs.writes = 0)
        /\ (dbPassword # pre.dbPassword) => step = "setSecret"
        /\ (versions # pre.versions \/ obs.writes > 0)
              => step \in {"createSecret", "finishSecret"}

\* testSecret has queried the database that setSecret moved to the pending
\* password.
C21_Witness ==
    /\ Finished
    /\ step = "testSecret"
    /\ obs.wstate = "returned"
    /\ obs.dbCalls = 2
    /\ dbPassword # InitialPassword
    /\ dbPassword = pre.dbPassword
    /\ versions = pre.versions

====
